---- MODULE Spec2Model ----
(***************************************************************************)
(* Defaulting of cluster, node-group and managed-node-group configuration  *)
(* (pkg/apis/eksctl.io/v1alpha5/defaults.go), with the kubelet             *)
(* reservation calculators and the kubeReserved merge.                     *)
(*                                                                         *)
(* Representation.                                                         *)
(*  - A Go pointer is the empty tuple (nil) or a one-element tuple holding *)
(*    the pointee; *bool tri-states are Nil, Enabled, Disabled.            *)
(*  - A Go map is a TLA+ function over its key set; a nil map is Nil and a *)
(*    non-nil map m is Ptr(m).                                             *)
(*  - An interface{} value of the kubelet document is a tagged record      *)
(*    (Str / Map) so that the type assertion of getKubeReserved can fail.  *)
(*  - float64 quantities are fixed-point integers: memory in 1/100 GiB     *)
(*    (the code rounds it to two decimals), memory reservations in         *)
(*    1/10000, storage reservations in 1/16 GB before and in 1/100 GB      *)
(*    after the two-decimal rounding.  The products and sums of the        *)
(*    bracket loop are exact on that grid; the binary rounding noise of    *)
(*    the float64 arithmetic is removed by the 32-bit shortest formatting  *)
(*    of formatMem for every reservation below 1024, which is the range    *)
(*    of the memory sizes drawn here.                                      *)
(***************************************************************************)
EXTENDS Integers, Sequences, FiniteSets, TLC

VARIABLES ng, mng, cfg, meta, ec2, resolved, kecErr, ngRet, ng0, mng0, cfg0

vars == <<ng, mng, cfg, meta, ec2, resolved, kecErr, ngRet, ng0, mng0, cfg0>>

----------------------------------------------------------------------------
(* Pointers, tri-state flags, maps                                          *)

Nil == <<>>
Ptr(v) == <<v>>
Deref(p) == p[1]

Enabled == Ptr(TRUE)
Disabled == Ptr(FALSE)
IsEnabled(v) == v # Nil /\ Deref(v)
IsDisabled(v) == v # Nil /\ ~Deref(v)
IsSetAndNonEmptyString(s) == s # Nil /\ Deref(s) # ""

EmptyMap == [k \in {} |-> ""]
MapSet(m, k, v) == [x \in (DOMAIN m) \cup {k} |-> IF x = k THEN v ELSE m[x]]

Str(s) == [kind |-> "string", str |-> s, map |-> EmptyMap]
Map(m) == [kind |-> "map", str |-> "", map |-> m]

NoError == "nil"

----------------------------------------------------------------------------
(* Package constants                                                        *)

DefaultNodeType == "m5.large"
DefaultNodeImageFamily == "AmazonLinux2"
NodeImageFamilyAmazonLinux2 == "AmazonLinux2"
DefaultNodeVolumeType == "gp2"
DefaultNodeSSHPublicKeyPath == "~/.ssh/id_rsa.pub"
ClusterNameLabel == "alpha.eksctl.io/cluster-name"
NodeGroupNameLabel == "alpha.eksctl.io/nodegroup-name"
NodeGroupNameTag == "alpha.eksctl.io/nodegroup-name"
NodeGroupTypeTag == "alpha.eksctl.io/nodegroup-type"
NodeGroupTypeManaged == "managed"
NamespaceDefault == "default"
SupportedCloudWatchClusterLogTypes ==
    <<"api", "audit", "authenticator", "controllerManager", "scheduler">>

----------------------------------------------------------------------------
(* Decimal formatting                                                       *)

RECURSIVE Digits(_, _)
Digits(n, w) == IF w = 0 THEN "" ELSE Digits(n \div 10, w - 1) \o ToString(n % 10)

RECURSIVE StripZeros(_, _)
StripZeros(n, w) ==
    IF w > 0 /\ n % 10 = 0 THEN StripZeros(n \div 10, w - 1) ELSE <<n, w>>

Pow10(w) == CASE w = 0 -> 1 [] w = 1 -> 10 [] w = 2 -> 100 [] w = 3 -> 1000 [] w = 4 -> 10000

\* strconv.FormatFloat(f, 'f', -1, _) of the value n / 10^w: the fewest
\* decimals that give the value back, no decimal point for an integer.
FormatFloat(n, w) ==
    LET s == StripZeros(n % Pow10(w), w)
    IN  ToString(n \div Pow10(w)) \o
        (IF s[2] = 0 THEN "" ELSE "." \o Digits(s[1], s[2]))

\* Round n / d to the nearest integer, ties to even (fmt's %.2f on a value
\* that is exact in binary).
RoundHalfEven(n, d) ==
    LET q == n \div d
        r == n % d
    IN  IF 2 * r > d \/ (2 * r = d /\ q % 2 = 1) THEN q + 1 ELSE q

StringsContains(s, ch) == \E i \in 1..Len(s) : SubSeq(s, i, i) = ch

----------------------------------------------------------------------------
(* Instance type lookup.  svc is the EC2 client of one reservation          *)
(* computation: svc[it] is what DescribeInstanceTypes answers for the       *)
(* instance type it, an error or an output holding zero or one             *)
(* InstanceTypeInfo.  getSession and getRegion only choose the region the   *)
(* client is created for; they change no configuration, and svc stands for  *)
(* the client they yield.                                                   *)

getInstanceTypeOutput(it, m, svc) ==
    IF svc[it].err # NoError
    THEN [out |-> Nil, err |-> svc[it].err]
    ELSE [out |-> Ptr([InstanceTypes |-> svc[it].InstanceTypes]), err |-> NoError]

getInstanceTypeInfo(it, m, svc) ==
    LET rest(r) ==
            IF r.err # NoError
            THEN [info |-> Nil, err |-> r.err]
            ELSE IF Len(Deref(r.out).InstanceTypes) = 0
                 THEN [info |-> Nil, err |-> "No info found for instance type: " \o it]
                 ELSE [info |-> Ptr(Deref(r.out).InstanceTypes[1]), err |-> NoError]
    IN  rest(getInstanceTypeOutput(it, m, svc))

----------------------------------------------------------------------------
(* CPU reservation                                                          *)

cpuAllocations ==
    [c \in {1, 2, 4, 8, 16, 32, 48, 64, 96} |->
        CASE c = 1 -> "60m"
          [] c = 2 -> "100m"
          [] c = 4 -> "140m"
          [] c = 8 -> "180m"
          [] c = 16 -> "260m"
          [] c = 32 -> "420m"
          [] c = 48 -> "580m"
          [] c = 64 -> "740m"
          [] c = 96 -> "1040m"]

getInstanceTypeCores(it, m, svc) ==
    LET rest(r) ==
            IF r.err # NoError
            THEN [val |-> 0, err |-> r.err]
            ELSE [val |-> Deref(r.info).VCpuInfo.DefaultVCpus, err |-> NoError]
    IN  rest(getInstanceTypeInfo(it, m, svc))

\* Mutant: a vCPU count outside the table keeps the initial "0" and no error.
getCpuReservations_fallback(it, m, svc) ==
    LET rest(c) ==
            IF c.err # NoError
            THEN [val |-> "", err |-> c.err]
            ELSE IF c.val \notin DOMAIN cpuAllocations
                 THEN [val |-> "0", err |-> NoError]
                 ELSE [val |-> cpuAllocations[c.val], err |-> NoError]
    IN  rest(getInstanceTypeCores(it, m, svc))

getCpuReservations(it, m, svc) ==
    LET rest(c) ==
            IF c.err # NoError
            THEN [val |-> "", err |-> c.err]
            ELSE IF c.val \notin DOMAIN cpuAllocations
                 THEN [val |-> "",
                       err |-> "Could not find suggested core reservation for instance type: "
                               \o it \o "\n"]
                 ELSE [val |-> cpuAllocations[c.val], err |-> NoError]
    IN  rest(getInstanceTypeCores(it, m, svc))

----------------------------------------------------------------------------
(* Memory reservation.  Memory is in 1/100 GiB, fractions in 1/100, the     *)
(* reservation in 1/10000.                                                  *)

Hundredths == 100
MiBPerGiB == 1024

memPercentages ==
    << [max |-> 4 * Hundredths, fraction |-> 25],
       [max |-> 8 * Hundredths, fraction |-> 20],
       [max |-> 16 * Hundredths, fraction |-> 10],
       [max |-> 128 * Hundredths, fraction |-> 6],
       [max |-> 65535 * Hundredths, fraction |-> 2] >>

\* fmt.Sprintf("%.2f", SizeInMiB / 1024.0) parsed back: GiB rounded to two
\* decimals, as a count of hundredths.
getInstanceTypeMem(it, m, svc) ==
    LET conv(memSize) ==
            (memSize \div MiBPerGiB) * Hundredths
            + RoundHalfEven((memSize % MiBPerGiB) * Hundredths, MiBPerGiB)
        rest(r) ==
            IF r.err # NoError
            THEN [val |-> 0, err |-> r.err]
            ELSE [val |-> conv(Deref(r.info).MemoryInfo.SizeInMiB), err |-> NoError]
    IN  rest(getInstanceTypeInfo(it, m, svc))

\* Mutant: the loop never advances the lower bound.
RECURSIVE memLoop_lowerStuck(_, _, _, _)
memLoop_lowerStuck(i, instMem, lower, reserved) ==
    IF i > Len(memPercentages)
    THEN reserved
    ELSE LET k == memPercentages[i].max
             v == memPercentages[i].fraction
         IN  IF instMem <= k
             THEN reserved + v * (instMem - lower)
             ELSE memLoop_lowerStuck(i + 1, instMem, lower, reserved + v * (k - lower))

\* The body of the range loop from entry i on, with the running lower bound
\* and accumulator.
RECURSIVE memLoop(_, _, _, _)
memLoop(i, instMem, lower, reserved) ==
    IF i > Len(memPercentages)
    THEN reserved
    ELSE LET k == memPercentages[i].max
             v == memPercentages[i].fraction
         IN  IF instMem <= k
             THEN reserved + v * (instMem - lower)
             ELSE memLoop(i + 1, instMem, k, reserved + v * (k - lower))

formatMem(f) ==
    LET ff == FormatFloat(f, 4)
    IN  (IF StringsContains(ff, ".") THEN ff ELSE ff \o ".0") \o "Mi"

getMemReservations(it, m, svc) ==
    LET rest(r) ==
            IF r.err # NoError
            THEN [val |-> "", err |-> r.err]
            ELSE [val |-> formatMem(memLoop(1, r.val, 0, 0)), err |-> NoError]
    IN  rest(getInstanceTypeMem(it, m, svc))

----------------------------------------------------------------------------
(* Ephemeral storage reservation.  storageSize / 16.0 is kept in 1/16 GB,   *)
(* the formatted value in 1/100 GB.                                         *)

defaultInstanceTypeStorage == 20
StorageDivisor == 16
MinStorageReservation == 1
MaxStorageReservation == 15

Max(a, b) == IF a >= b THEN a ELSE b
Min(a, b) == IF a <= b THEN a ELSE b

getInstanceTypeStorage(it, m, svc) ==
    LET rest(r) ==
            IF r.err # NoError
            THEN [val |-> 0, err |-> r.err]
            ELSE IF ~Deref(r.info).InstanceStorageSupported
                 THEN [val |-> defaultInstanceTypeStorage, err |-> NoError]
                 ELSE [val |-> Deref(Deref(r.info).InstanceStorageInfo).TotalSizeInGB,
                       err |-> NoError]
    IN  rest(getInstanceTypeInfo(it, m, svc))

\* f is in sixteenths of a GB.
formatStorageSize(f) ==
    [val |-> FormatFloat(RoundHalfEven(f * Hundredths, StorageDivisor), 2) \o "Gi",
     err |-> NoError]

\* Mutant: the upper clamp is missing.
getEphemeralStorageReservations_noUpper(it, m, svc) ==
    LET rest(r) ==
            IF r.err # NoError
            THEN [val |-> "", err |-> r.err]
            ELSE formatStorageSize(Max(MinStorageReservation * StorageDivisor, r.val))
    IN  rest(getInstanceTypeStorage(it, m, svc))

getEphemeralStorageReservations(it, m, svc) ==
    LET rest(r) ==
            IF r.err # NoError
            THEN [val |-> "", err |-> r.err]
            ELSE formatStorageSize(
                     Min(MaxStorageReservation * StorageDivisor,
                         Max(MinStorageReservation * StorageDivisor, r.val)))
    IN  rest(getInstanceTypeStorage(it, m, svc))

----------------------------------------------------------------------------
(* Merge of the computed reservations into the kubelet document             *)

RscTypes == {"cpu", "memory", "ephemeral-storage"}

\* rscParams: the resource types in the order the loop visits them; getFun
\* is the getter paired with each.
rscParams == <<"cpu", "memory", "ephemeral-storage">>

getFun(rscType, it, m, svc) ==
    CASE rscType = "cpu" -> getCpuReservations(it, m, svc)
      [] rscType = "memory" -> getMemReservations(it, m, svc)
      [] rscType = "ephemeral-storage" -> getEphemeralStorageReservations(it, m, svc)

getKubeReserved(kec) ==
    IF "kubeReserved" \in DOMAIN kec /\ kec["kubeReserved"].kind = "map"
    THEN kec["kubeReserved"].map
    ELSE EmptyMap

\* Mutant: the computed value replaces an entry that is already there.
setReservationDefault_overwrite(n, resType, m, svc) ==
    LET rest(kec, r) ==
            IF r.err # NoError
            THEN [ng |-> n, err |-> r.err]
            ELSE [ng |-> [n EXCEPT !.KubeletExtraConfig =
                              Ptr(MapSet(kec, "kubeReserved",
                                         Map(MapSet(getKubeReserved(kec), resType, r.val))))],
                  err |-> NoError]
    IN  rest(IF n.KubeletExtraConfig = Nil THEN EmptyMap ELSE Deref(n.KubeletExtraConfig),
             getFun(resType, n.InstanceType, m, svc))

setReservationDefault(n, resType, m, svc) ==
    LET merge(kubeReserved, rsrcRes) ==
            IF resType \notin DOMAIN kubeReserved
            THEN MapSet(kubeReserved, resType, rsrcRes)
            ELSE kubeReserved
        rest(kec, r) ==
            IF r.err # NoError
            THEN [ng |-> n, err |-> r.err]
            ELSE [ng |-> [n EXCEPT !.KubeletExtraConfig =
                              Ptr(MapSet(kec, "kubeReserved",
                                         Map(merge(getKubeReserved(kec), r.val))))],
                  err |-> NoError]
    IN  rest(IF n.KubeletExtraConfig = Nil THEN EmptyMap ELSE Deref(n.KubeletExtraConfig),
             getFun(resType, n.InstanceType, m, svc))

setCpuReservationsDefaults(n, rscType, m, svc) == setReservationDefault(n, rscType, m, svc)
setMemoryResevationDefaults(n, rscType, m, svc) == setReservationDefault(n, rscType, m, svc)
setEphemeralStorageDefaults(n, rscType, m, svc) == setReservationDefault(n, rscType, m, svc)

setFun(n, rscType, m, svc) ==
    CASE rscType = "cpu" -> setCpuReservationsDefaults(n, rscType, m, svc)
      [] rscType = "memory" -> setMemoryResevationDefaults(n, rscType, m, svc)
      [] rscType = "ephemeral-storage" -> setEphemeralStorageDefaults(n, rscType, m, svc)

\* The range loop over rscParams from entry i on; e[rscType] is the EC2
\* client the computation for rscType talks to.
RECURSIVE kecLoop(_, _, _, _)
kecLoop(i, n, m, e) ==
    IF i > Len(rscParams)
    THEN [ng |-> n, err |-> NoError]
    ELSE LET rest(r) == IF r.err # NoError THEN r ELSE kecLoop(i + 1, r.ng, m, e)
         IN  rest(setFun(n, rscParams[i], m, e[rscParams[i]]))

SetKubeletExtraConfigDefaults(n, m, e) == kecLoop(1, n, m, e)

----------------------------------------------------------------------------
(* SSH, IAM and label defaults                                              *)

Toggles == {"ImageBuilder", "AutoScaler", "ExternalDNS", "CertManager", "ALBIngress",
            "XRay", "CloudWatch", "EBS", "FSX", "EFS"}

DefaultUnset(v) == IF v = Nil THEN Disabled ELSE v

\* Mutant: the EFS test assigns FSX, so an unset EFS stays unset.
setIAMDefaults_copyPaste(iamConfig) ==
    LET p == iamConfig.WithAddonPolicies
    IN  [iamConfig EXCEPT !.WithAddonPolicies =
            [ImageBuilder |-> DefaultUnset(p.ImageBuilder),
             AutoScaler |-> DefaultUnset(p.AutoScaler),
             ExternalDNS |-> DefaultUnset(p.ExternalDNS),
             CertManager |-> DefaultUnset(p.CertManager),
             ALBIngress |-> DefaultUnset(p.ALBIngress),
             XRay |-> DefaultUnset(p.XRay),
             CloudWatch |-> DefaultUnset(p.CloudWatch),
             EBS |-> DefaultUnset(p.EBS),
             FSX |-> IF p.EFS = Nil THEN Disabled ELSE DefaultUnset(p.FSX),
             EFS |-> p.EFS]]

setIAMDefaults(iamConfig) ==
    LET p == iamConfig.WithAddonPolicies
    IN  [iamConfig EXCEPT !.WithAddonPolicies =
            [ImageBuilder |-> DefaultUnset(p.ImageBuilder),
             AutoScaler |-> DefaultUnset(p.AutoScaler),
             ExternalDNS |-> DefaultUnset(p.ExternalDNS),
             CertManager |-> DefaultUnset(p.CertManager),
             ALBIngress |-> DefaultUnset(p.ALBIngress),
             XRay |-> DefaultUnset(p.XRay),
             CloudWatch |-> DefaultUnset(p.CloudWatch),
             EBS |-> DefaultUnset(p.EBS),
             FSX |-> DefaultUnset(p.FSX),
             EFS |-> DefaultUnset(p.EFS)]]

countEnabledFields(fields) ==
    Cardinality({i \in 1..Len(fields) : fields[i] # Nil /\ Deref(fields[i]) # ""})

\* Mutant: the test of the allow flag in the no-key branch is inverted.
setSSHDefaults_inverted(sshConfig) ==
    LET numSSHFlagsEnabled ==
            countEnabledFields(<<sshConfig.PublicKeyName, sshConfig.PublicKeyPath,
                                 sshConfig.PublicKey>>)
    IN  IF numSSHFlagsEnabled = 0
        THEN IF ~IsEnabled(sshConfig.Allow)
             THEN [sshConfig EXCEPT !.PublicKeyPath = Ptr(DefaultNodeSSHPublicKeyPath)]
             ELSE [sshConfig EXCEPT !.Allow = Disabled]
        ELSE IF ~IsDisabled(sshConfig.Allow)
             THEN [sshConfig EXCEPT !.Allow = Enabled]
             ELSE sshConfig

\* Mutant: a key enables SSH even when allow is explicitly disabled.
setSSHDefaults_noOverride(sshConfig) ==
    LET numSSHFlagsEnabled ==
            countEnabledFields(<<sshConfig.PublicKeyName, sshConfig.PublicKeyPath,
                                 sshConfig.PublicKey>>)
    IN  IF numSSHFlagsEnabled = 0
        THEN IF IsEnabled(sshConfig.Allow)
             THEN [sshConfig EXCEPT !.PublicKeyPath = Ptr(DefaultNodeSSHPublicKeyPath)]
             ELSE [sshConfig EXCEPT !.Allow = Disabled]
        ELSE [sshConfig EXCEPT !.Allow = Enabled]

setSSHDefaults(sshConfig) ==
    LET numSSHFlagsEnabled ==
            countEnabledFields(<<sshConfig.PublicKeyName, sshConfig.PublicKeyPath,
                                 sshConfig.PublicKey>>)
    IN  IF numSSHFlagsEnabled = 0
        THEN IF IsEnabled(sshConfig.Allow)
             THEN [sshConfig EXCEPT !.PublicKeyPath = Ptr(DefaultNodeSSHPublicKeyPath)]
             ELSE [sshConfig EXCEPT !.Allow = Disabled]
        ELSE IF ~IsDisabled(sshConfig.Allow)
             THEN [sshConfig EXCEPT !.Allow = Enabled]
             ELSE sshConfig

\* Mutant: the two entries are only filled in when missing.
setDefaultNodeLabels_ifAbsent(labels, clusterName, nodeGroupName) ==
    [k \in (DOMAIN labels) \cup {ClusterNameLabel, NodeGroupNameLabel} |->
        IF k \in DOMAIN labels THEN labels[k]
        ELSE IF k = ClusterNameLabel THEN clusterName ELSE nodeGroupName]

setDefaultNodeLabels(labels, clusterName, nodeGroupName) ==
    MapSet(MapSet(labels, ClusterNameLabel, clusterName), NodeGroupNameLabel, nodeGroupName)

NewNodeGroupSSH == [Allow |-> Disabled, PublicKeyPath |-> Nil, PublicKey |-> Nil,
                    PublicKeyName |-> Nil]
NewNodeGroupIAM == [WithAddonPolicies |-> [t \in Toggles |-> Nil]]
NewNodeGroupSGs == [AttachIDs |-> <<>>, WithLocal |-> Nil, WithShared |-> Nil]

HasMixedInstances(n) ==
    n.InstancesDistribution # Nil /\ Len(Deref(n.InstancesDistribution).InstanceTypes) # 0

----------------------------------------------------------------------------
(* The three defaulting passes                                              *)

NewClusterIAM == [WithOIDC |-> Nil, ServiceAccounts |-> <<>>]

cfgIAM(iam) ==
    [iam EXCEPT !.WithOIDC = IF iam.WithOIDC = Nil THEN Disabled ELSE iam.WithOIDC,
                !.ServiceAccounts =
                    [i \in 1..Len(iam.ServiceAccounts) |->
                        IF iam.ServiceAccounts[i].Namespace = ""
                        THEN [iam.ServiceAccounts[i] EXCEPT !.Namespace = NamespaceDefault]
                        ELSE iam.ServiceAccounts[i]]]

HasClusterCloudWatchLogging(c) ==
    c.CloudWatch # Nil /\ Deref(c.CloudWatch).ClusterLogging # Nil

EnableTypes(c) == Deref(Deref(c.CloudWatch).ClusterLogging).EnableTypes

\* Mutant: the length test is missing; a leading sentinel expands any list.
cfgLogTypes_anyLength(c) ==
    IF HasClusterCloudWatchLogging(c) /\ Len(EnableTypes(c)) >= 1
       /\ EnableTypes(c)[1] \in {"all", "*"}
    THEN [c EXCEPT !.CloudWatch =
             Ptr([ClusterLogging |->
                     Ptr([EnableTypes |-> SupportedCloudWatchClusterLogTypes])])]
    ELSE c

cfgLogTypes(c) ==
    IF HasClusterCloudWatchLogging(c) /\ Len(EnableTypes(c)) = 1
       /\ EnableTypes(c)[1] \in {"all", "*"}
    THEN [c EXCEPT !.CloudWatch =
             Ptr([ClusterLogging |->
                     Ptr([EnableTypes |-> SupportedCloudWatchClusterLogTypes])])]
    ELSE c

SetClusterConfigDefaults(c) ==
    cfgLogTypes([c EXCEPT !.IAM = Ptr(cfgIAM(IF c.IAM = Nil THEN NewClusterIAM
                                              ELSE Deref(c.IAM)))])

\* The steps of SetNodeGroupDefaults, in order.
ngInstanceType(n) ==
    IF n.InstanceType = ""
    THEN [n EXCEPT !.InstanceType = IF HasMixedInstances(n) THEN "mixed" ELSE DefaultNodeType]
    ELSE n

ngAMIFamily(n) ==
    IF n.AMIFamily = "" THEN [n EXCEPT !.AMIFamily = DefaultNodeImageFamily] ELSE n

sgDefaults(sg) ==
    [sg EXCEPT !.WithLocal = IF sg.WithLocal = Nil THEN Enabled ELSE sg.WithLocal,
               !.WithShared = IF sg.WithShared = Nil THEN Enabled ELSE sg.WithShared]

ngSecurityGroups(n) ==
    [n EXCEPT !.SecurityGroups =
        Ptr(sgDefaults(IF n.SecurityGroups = Nil THEN NewNodeGroupSGs
                       ELSE Deref(n.SecurityGroups)))]

ngSSH(n) ==
    [n EXCEPT !.SSH =
        Ptr(setSSHDefaults(IF n.SSH = Nil THEN NewNodeGroupSSH ELSE Deref(n.SSH)))]

ngVolumeType(n) ==
    IF ~IsSetAndNonEmptyString(n.VolumeType)
    THEN [n EXCEPT !.VolumeType = Ptr(DefaultNodeVolumeType)]
    ELSE n

ngIAM(n) ==
    [n EXCEPT !.IAM =
        Ptr(setIAMDefaults(IF n.IAM = Nil THEN NewNodeGroupIAM ELSE Deref(n.IAM)))]

ngLabels(n, m) ==
    [n EXCEPT !.Labels =
        Ptr(setDefaultNodeLabels(IF n.Labels = Nil THEN EmptyMap ELSE Deref(n.Labels),
                                 m.Name, n.Name))]

ngKubeletExtraConfig(n) ==
    IF n.KubeletExtraConfig = Nil THEN [n EXCEPT !.KubeletExtraConfig = Ptr(EmptyMap)] ELSE n

\* ng: the record after the pass; kec: the result of the call to
\* SetKubeletExtraConfigDefaults, which the function drops; ret: what the
\* caller receives (the function has no result parameter).
SetNodeGroupDefaults(n, m, e) ==
    LET rest(k) == [ng |-> k.ng, kec |-> k.err, ret |-> NoError]
    IN  rest(SetKubeletExtraConfigDefaults(
                 ngKubeletExtraConfig(
                     ngLabels(
                         ngIAM(ngVolumeType(ngSSH(ngSecurityGroups(
                             ngAMIFamily(ngInstanceType(n)))))),
                         m)),
                 m, e))

\* The steps of SetManagedNodeGroupDefaults, in order.
mngAMIFamily(n) ==
    IF n.AMIFamily = "" THEN [n EXCEPT !.AMIFamily = NodeImageFamilyAmazonLinux2] ELSE n

mngInstanceType(n) ==
    IF n.InstanceType = "" THEN [n EXCEPT !.InstanceType = DefaultNodeType] ELSE n

mngScalingConfig(n) ==
    IF n.ScalingConfig = Nil
    THEN [n EXCEPT !.ScalingConfig =
             Ptr([MinSize |-> Nil, MaxSize |-> Nil, DesiredCapacity |-> Nil])]
    ELSE n

mngSSH(n) ==
    [n EXCEPT !.SSH =
        Ptr(setSSHDefaults(IF n.SSH = Nil THEN NewNodeGroupSSH ELSE Deref(n.SSH)))]

mngIAM(n) ==
    [n EXCEPT !.IAM =
        Ptr(setIAMDefaults(IF n.IAM = Nil THEN NewNodeGroupIAM ELSE Deref(n.IAM)))]

mngLabels(n, m) ==
    [n EXCEPT !.Labels =
        Ptr(setDefaultNodeLabels(IF n.Labels = Nil THEN EmptyMap ELSE Deref(n.Labels),
                                 m.Name, n.Name))]

mngTags(n) ==
    [n EXCEPT !.Tags =
        Ptr(MapSet(MapSet(IF n.Tags = Nil THEN EmptyMap ELSE Deref(n.Tags),
                          NodeGroupNameTag, n.Name),
                   NodeGroupTypeTag, NodeGroupTypeManaged))]

SetManagedNodeGroupDefaults(n, m) ==
    mngTags(mngLabels(mngIAM(mngSSH(mngScalingConfig(mngInstanceType(mngAMIFamily(n))))), m))

----------------------------------------------------------------------------
(* Bounds of the configurations and provider answers drawn by Init          *)

MaxPreset == 2           \* IAM toggles the loaded configuration sets itself
MaxServiceAccounts == 2
MaxLogTypes == 2         \* length of the cluster logging enable-list
MaxVCpus == 96
MaxMemSteps == 1100      \* memory sizes are multiples of MemStepMiB
MemStepMiB == 128
MaxStorageGB == 400

----------------------------------------------------------------------------
(* Provider answers                                                         *)

InstanceTypeInfo(vcpus, mib, supported, gb) ==
    [VCpuInfo |-> [DefaultVCpus |-> vcpus],
     MemoryInfo |-> [SizeInMiB |-> mib],
     InstanceStorageSupported |-> supported,
     InstanceStorageInfo |-> IF supported THEN Ptr([TotalSizeInGB |-> gb]) ELSE Nil]

Output(infos) == [err |-> NoError, InstanceTypes |-> infos]
ApiError == [err |-> "RequestError: send request failed", InstanceTypes |-> <<>>]

InstanceTypeNames == <<DefaultNodeType, "mixed", "c5.4xlarge">>

Answers ==
    << Output(<<InstanceTypeInfo(2, 8192, FALSE, 0)>>),
       Output(<<InstanceTypeInfo(3, 6144, TRUE, 160)>>),
       Output(<<>>),
       Output(<<InstanceTypeInfo(16, 32768, TRUE, 8)>>) >>

\* The k-th catalogue answers every instance type differently.
Catalog(k) ==
    [it \in {InstanceTypeNames[i] : i \in 1..Len(InstanceTypeNames)} |->
        LET i == CHOOSE j \in 1..Len(InstanceTypeNames) : InstanceTypeNames[j] = it
        IN  Answers[((i + k) % Len(Answers)) + 1]]

\* One client per reservation computation: the calls of the computations in
\* failing do not get through, the others are answered from the catalogue.
Clients(catalog, failing) ==
    [r \in RscTypes |->
        IF r \in failing THEN [it \in DOMAIN catalog |-> ApiError] ELSE catalog]

OneType(info) == Clients([it \in DOMAIN Catalog(0) |-> Output(<<info>>)], {})

----------------------------------------------------------------------------
(* Loaded configurations                                                    *)

TriState == {Nil, Enabled, Disabled}
OptString(vals) == {Nil, Ptr("")} \cup {Ptr(v) : v \in vals}

BaseNG ==
    [Name |-> "ng-1", InstanceType |-> "", InstancesDistribution |-> Nil, AMIFamily |-> "",
     SecurityGroups |-> Nil, SSH |-> Nil, VolumeType |-> Nil, IAM |-> Nil, Labels |-> Nil,
     KubeletExtraConfig |-> Nil]

BaseMNG ==
    [Name |-> "mng-1", AMIFamily |-> "", InstanceType |-> "", ScalingConfig |-> Nil,
     SSH |-> Nil, IAM |-> Nil, Labels |-> Nil, Tags |-> Nil]

BaseCfg == [IAM |-> Nil, CloudWatch |-> Nil]
BaseMeta == [Name |-> "prod", Region |-> "us-west-2"]
BaseEC2 == Clients(Catalog(0), {})

SSHInputs ==
    {Nil} \cup
    {Ptr([Allow |-> a, PublicKeyPath |-> p, PublicKey |-> k, PublicKeyName |-> n]) :
        a \in TriState, p \in OptString({"~/.ssh/ec2.pub"}),
        k \in OptString({"ssh-rsa AAAA"}), n \in OptString({"ec2-key"})}

IAMInputs ==
    {Nil} \cup
    {Ptr([WithAddonPolicies |-> p]) :
        p \in {q \in [Toggles -> TriState] :
                  Cardinality({t \in Toggles : q[t] # Nil}) <= MaxPreset}}

SGInputs ==
    {Nil} \cup
    {Ptr([AttachIDs |-> <<"sg-1">>, WithLocal |-> l, WithShared |-> s]) :
        l \in TriState, s \in TriState}

DistributionInputs ==
    {Nil, Ptr([InstanceTypes |-> <<>>]), Ptr([InstanceTypes |-> <<"m5.large", "m5.xlarge">>])}

\* The maps over the subsets of keys, each key at its value in vals.
MapsOver(keys, vals) == {[k \in ks |-> vals[k]] : ks \in SUBSET keys}

LabelInputs ==
    {Nil} \cup
    {Ptr(l) : l \in MapsOver({ClusterNameLabel, NodeGroupNameLabel, "team"},
                             [k \in {ClusterNameLabel, NodeGroupNameLabel, "team"} |->
                                 CASE k = ClusterNameLabel -> "old-cluster"
                                   [] k = NodeGroupNameLabel -> "old-ng"
                                   [] k = "team" -> "infra"])}

TagInputs ==
    {Nil} \cup
    {Ptr(l) : l \in MapsOver({NodeGroupNameTag, NodeGroupTypeTag, "owner"},
                             [k \in {NodeGroupNameTag, NodeGroupTypeTag, "owner"} |->
                                 CASE k = NodeGroupNameTag -> "old-ng"
                                   [] k = NodeGroupTypeTag -> "unmanaged"
                                   [] k = "owner" -> "ops"])}

PresetReserved ==
    [k \in RscTypes \cup {"pid"} |->
        CASE k = "cpu" -> "250m"
          [] k = "memory" -> "500Mi"
          [] k = "ephemeral-storage" -> "2Gi"
          [] k = "pid" -> "1000"]

KubeReservedInputs ==
    {Str("none")} \cup {Map(r) : r \in MapsOver(RscTypes \cup {"pid"}, PresetReserved)}

KubeletInputs ==
    {Nil, Ptr(EmptyMap), Ptr([maxPods |-> Str("110")])}
    \cup {Ptr([kubeReserved |-> r]) : r \in KubeReservedInputs}
    \cup {Ptr([kubeReserved |-> r, maxPods |-> Str("110")]) : r \in KubeReservedInputs}

RECURSIVE SeqsUpTo(_, _)
SeqsUpTo(S, n) ==
    IF n = 0 THEN {<<>>}
    ELSE LET shorter == SeqsUpTo(S, n - 1)
         IN  shorter \cup {Append(q, x) : q \in shorter, x \in S}

ClusterIAMInputs ==
    {Nil} \cup
    {Ptr([WithOIDC |-> o, ServiceAccounts |-> sas]) :
        o \in TriState,
        sas \in SeqsUpTo({[Namespace |-> ""], [Namespace |-> "kube-system"]},
                         MaxServiceAccounts)}

CloudWatchInputs ==
    {Nil, Ptr([ClusterLogging |-> Nil])} \cup
    {Ptr([ClusterLogging |-> Ptr([EnableTypes |-> ts])]) :
        ts \in SeqsUpTo({"all", "*", "api", "audit"}, MaxLogTypes)}

MemSizes == {MemStepMiB * k : k \in 0..MaxMemSteps}

----------------------------------------------------------------------------
(* Init: the configurations as loaded, one group of fields varied at a time, *)
(* and the provider's answers.                                               *)

Loaded(n, mn, c, m, e) ==
    /\ ng = n /\ mng = mn /\ cfg = c /\ meta = m /\ ec2 = e
    /\ ng0 = n /\ mng0 = mn /\ cfg0 = c
    /\ resolved = {}
    /\ kecErr = NoError
    /\ ngRet = NoError

InitSSH ==
    \E s \in SSHInputs :
        Loaded([BaseNG EXCEPT !.SSH = s], [BaseMNG EXCEPT !.SSH = s], BaseCfg, BaseMeta, BaseEC2)

InitIAM ==
    \E i \in IAMInputs :
        Loaded([BaseNG EXCEPT !.IAM = i], [BaseMNG EXCEPT !.IAM = i], BaseCfg, BaseMeta, BaseEC2)

InitScalars ==
    \E sg \in SGInputs, vt \in OptString({"io1"}), ami \in {"", "Ubuntu1804"},
       it \in {"", "c5.4xlarge"}, d \in DistributionInputs, o \in TriState :
        Loaded([BaseNG EXCEPT !.SecurityGroups = sg, !.VolumeType = vt, !.AMIFamily = ami,
                              !.InstanceType = it, !.InstancesDistribution = d],
               [BaseMNG EXCEPT !.AMIFamily = ami, !.InstanceType = it],
               [BaseCfg EXCEPT !.IAM = Ptr([WithOIDC |-> o, ServiceAccounts |-> <<>>])],
               BaseMeta, BaseEC2)

InitLabels ==
    \E l \in LabelInputs, t \in TagInputs, c \in {"prod", "dev"}, g \in {"ng-1", "workers"} :
        Loaded([BaseNG EXCEPT !.Labels = l, !.Name = g],
               [BaseMNG EXCEPT !.Labels = l, !.Tags = t, !.Name = g],
               BaseCfg, [BaseMeta EXCEPT !.Name = c], BaseEC2)

InitKubelet ==
    \E k \in KubeletInputs, c \in 0..(Len(Answers) - 1), f \in SUBSET RscTypes,
       it \in {"", "c5.4xlarge"}, d \in {Nil, Ptr([InstanceTypes |-> <<"m5.large", "m5.xlarge">>])} :
        Loaded([BaseNG EXCEPT !.KubeletExtraConfig = k, !.InstanceType = it,
                              !.InstancesDistribution = d],
               BaseMNG, BaseCfg, BaseMeta, Clients(Catalog(c), f))

InitCalc ==
    \E info \in {InstanceTypeInfo(v, 8192, FALSE, 0) : v \in 0..MaxVCpus}
               \cup {InstanceTypeInfo(2, mib, FALSE, 0) : mib \in MemSizes}
               \cup {InstanceTypeInfo(2, 8192, TRUE, gb) : gb \in 0..MaxStorageGB} :
        Loaded(BaseNG, BaseMNG, BaseCfg, BaseMeta, OneType(info))

InitCluster ==
    \E i \in ClusterIAMInputs, cw \in CloudWatchInputs :
        Loaded(BaseNG, BaseMNG, [IAM |-> i, CloudWatch |-> cw], BaseMeta, BaseEC2)

Init ==
    \/ InitSSH
    \/ InitIAM
    \/ InitScalars
    \/ InitLabels
    \/ InitKubelet
    \/ InitCalc
    \/ InitCluster

----------------------------------------------------------------------------
(* Actions: one call of each defaulting pass on the record it mutates        *)

ResolveClusterDefaults ==
    /\ cfg' = SetClusterConfigDefaults(cfg)
    /\ resolved' = resolved \cup {"cfg"}
    /\ UNCHANGED <<ng, mng, meta, ec2, kecErr, ngRet, ng0, mng0, cfg0>>

ResolveNodeGroupDefaults ==
    /\ LET return(r) ==
               /\ ng' = r.ng
               /\ kecErr' = r.kec
               /\ ngRet' = r.ret
       IN  return(SetNodeGroupDefaults(ng, meta, ec2))
    /\ resolved' = resolved \cup {"ng"}
    /\ UNCHANGED <<mng, cfg, meta, ec2, ng0, mng0, cfg0>>

ResolveManagedNodeGroupDefaults ==
    /\ mng' = SetManagedNodeGroupDefaults(mng, meta)
    /\ resolved' = resolved \cup {"mng"}
    /\ UNCHANGED <<ng, cfg, meta, ec2, kecErr, ngRet, ng0, mng0, cfg0>>

Next ==
    \/ ResolveClusterDefaults
    \/ ResolveNodeGroupDefaults
    \/ ResolveManagedNodeGroupDefaults

Spec == Init /\ [][Next]_vars

----------------------------------------------------------------------------
(* Vocabulary of the properties                                             *)

Done(x) == x \in resolved

Set(flag) == flag \in {Enabled, Disabled}

\* The SSH record a pass starts from: a nil pointer is replaced by a record
\* with Allow disabled before the sub-resolution runs.
SSHBefore(p) == IF p = Nil THEN NewNodeGroupSSH ELSE Deref(p)

KeyGiven(k) == k # Nil /\ k # Ptr("")
KeysGiven(ssh) ==
    Cardinality({f \in {"PublicKeyName", "PublicKeyPath", "PublicKey"} : KeyGiven(ssh[f])})
SameKeys(a, b) ==
    /\ a.PublicKeyName = b.PublicKeyName
    /\ a.PublicKeyPath = b.PublicKeyPath
    /\ a.PublicKey = b.PublicKey

\* The kubeReserved entries of a kubelet document pointer (none when the
\* pointer is nil, the key is missing or its value is not a map).
ReservedOf(p) ==
    IF p # Nil /\ "kubeReserved" \in DOMAIN Deref(p) /\ Deref(p)["kubeReserved"].kind = "map"
    THEN Deref(p)["kubeReserved"].map
    ELSE EmptyMap

DocOf(p) == IF p = Nil THEN EmptyMap ELSE Deref(p)

\* What the provider answers the computation of rscType for the resolved
\* instance type of the node group.
AnswerFor(rscType) == ec2[rscType][ng.InstanceType]
HasInfo(rscType) ==
    AnswerFor(rscType).err = NoError /\ Len(AnswerFor(rscType).InstanceTypes) > 0
InfoFor(rscType) == AnswerFor(rscType).InstanceTypes[1]

\* rscType was absent from the loaded kubeReserved and is present now: its
\* value is the one the pass computed.
Computed(rscType) ==
    /\ Done("ng")
    /\ rscType \notin DOMAIN ReservedOf(ng0.KubeletExtraConfig)
    /\ rscType \in DOMAIN ReservedOf(ng.KubeletExtraConfig)

----------------------------------------------------------------------------
(* C1 *)

\* C1: node-group defaulting is idempotent: once a node group (managed or
\* not) has been through its defaulting pass, running the pass again with the
\* same cluster meta and the same provider answers leaves the record as it is.
C1_Idempotent ==
    /\ Done("ng") => SetNodeGroupDefaults(ng, meta, ec2).ng = ng
    /\ Done("mng") => SetManagedNodeGroupDefaults(mng, meta) = mng

C1_Witness ==
    /\ Done("ng") /\ Done("mng")
    /\ ng # ng0 /\ mng # mng0
    /\ ng0.SSH # Nil /\ Deref(ng0.SSH).Allow = Enabled /\ KeysGiven(Deref(ng0.SSH)) = 0
    /\ SetNodeGroupDefaults(ng, meta, ec2).ng = ng

----------------------------------------------------------------------------
(* C2 *)

\* C2: when a reservation computation fails during a node group's pass, the
\* pass surfaces the failure to its caller.
C2_FailureSurfaced ==
    (Done("ng") /\ kecErr # NoError) => ngRet # NoError

----------------------------------------------------------------------------
(* C3 *)

\* C3: after a pass in which all three computations succeed, kubeReserved
\* holds cpu, memory and ephemeral-storage; each of them has the value the
\* caller pre-set if there was one and the computed value otherwise; every
\* other entry of kubeReserved and every other key of the kubelet document is
\* as loaded.
C3_MergeKeepsPreset ==
    (Done("ng") /\ kecErr = NoError) =>
        LET before == ReservedOf(ng0.KubeletExtraConfig)
            after == ReservedOf(ng.KubeletExtraConfig)
            doc0 == DocOf(ng0.KubeletExtraConfig)
            doc == DocOf(ng.KubeletExtraConfig)
        IN  /\ DOMAIN after = (DOMAIN before) \cup RscTypes
            /\ \A t \in DOMAIN before : after[t] = before[t]
            /\ \A t \in RscTypes \ DOMAIN before :
                   after[t] = getFun(t, ng.InstanceType, meta, ec2[t]).val
            /\ DOMAIN doc = (DOMAIN doc0) \cup {"kubeReserved"}
            /\ \A k \in (DOMAIN doc0) \ {"kubeReserved"} : doc[k] = doc0[k]

C3_Witness ==
    /\ Done("ng") /\ kecErr = NoError
    /\ DOMAIN ReservedOf(ng0.KubeletExtraConfig) = {"memory", "pid"}
    /\ "maxPods" \in DOMAIN DocOf(ng0.KubeletExtraConfig)
    /\ ReservedOf(ng.KubeletExtraConfig)["memory"] = "500Mi"
    /\ ReservedOf(ng.KubeletExtraConfig)["cpu"] = "100m"
    /\ ReservedOf(ng.KubeletExtraConfig)["ephemeral-storage"] = "1.25Gi"

----------------------------------------------------------------------------
(* C4 *)

SSHRule(in, out) ==
    /\ (KeysGiven(in) = 0 /\ in.Allow \in {Nil, Disabled}) =>
           out.Allow = Disabled /\ SameKeys(in, out) /\ ~KeyGiven(out.PublicKeyPath)
    /\ (KeysGiven(in) = 0 /\ in.Allow = Enabled) =>
           /\ out.Allow = Enabled
           /\ out.PublicKeyPath = Ptr(DefaultNodeSSHPublicKeyPath)
           /\ KeyGiven(out.PublicKeyPath)
    /\ (KeysGiven(in) >= 1 /\ in.Allow \in {Nil, Enabled}) => out.Allow = Enabled
    /\ (KeysGiven(in) >= 1 /\ in.Allow = Disabled) => out = in

\* C4: the SSH sub-resolution, for every combination of the three key fields
\* and the allow flag: no key and allow unset or disabled gives disabled with
\* no key path; no key and allow enabled keeps enabled and sets the default
\* key path; a key and allow unset or enabled gives enabled; a key and allow
\* disabled leaves the record as it is.
C4_SSHResolution ==
    /\ Done("ng") => SSHRule(SSHBefore(ng0.SSH), Deref(ng.SSH))
    /\ Done("mng") => SSHRule(SSHBefore(mng0.SSH), Deref(mng.SSH))

C4_Witness ==
    /\ Done("ng") /\ Done("mng")
    /\ ng0.SSH # Nil
    /\ KeysGiven(Deref(ng0.SSH)) = 2
    /\ Deref(ng0.SSH).Allow = Nil
    /\ Deref(ng.SSH).Allow = Enabled
    /\ Deref(mng.SSH).Allow = Enabled

----------------------------------------------------------------------------
(* C5 *)

Kept(before, after) == before # Nil => after = before

TogglesBefore(p) == IF p = Nil THEN [t \in Toggles |-> Nil] ELSE Deref(p).WithAddonPolicies

\* C5: after a pass no tri-state is unset: the security-group flags, the SSH
\* allow flag and the ten IAM toggles of a node group, and the cluster's OIDC
\* flag, are enabled or disabled; a flag the loaded configuration had set keeps
\* its value (the SSH allow flag follows the SSH sub-resolution instead).
C5_NoTriStateUnset ==
    /\ Done("ng") =>
           /\ Set(Deref(ng.SecurityGroups).WithLocal)
           /\ Set(Deref(ng.SecurityGroups).WithShared)
           /\ ng0.SecurityGroups # Nil =>
                  /\ Kept(Deref(ng0.SecurityGroups).WithLocal, Deref(ng.SecurityGroups).WithLocal)
                  /\ Kept(Deref(ng0.SecurityGroups).WithShared, Deref(ng.SecurityGroups).WithShared)
           /\ Set(Deref(ng.SSH).Allow)
           /\ \A t \in Toggles :
                  /\ Set(Deref(ng.IAM).WithAddonPolicies[t])
                  /\ Kept(TogglesBefore(ng0.IAM)[t], Deref(ng.IAM).WithAddonPolicies[t])
    /\ Done("mng") =>
           /\ Set(Deref(mng.SSH).Allow)
           /\ \A t \in Toggles :
                  /\ Set(Deref(mng.IAM).WithAddonPolicies[t])
                  /\ Kept(TogglesBefore(mng0.IAM)[t], Deref(mng.IAM).WithAddonPolicies[t])
    /\ Done("cfg") =>
           /\ Set(Deref(cfg.IAM).WithOIDC)
           /\ cfg0.IAM # Nil => Kept(Deref(cfg0.IAM).WithOIDC, Deref(cfg.IAM).WithOIDC)

C5_Witness ==
    /\ resolved = {"ng", "mng", "cfg"}
    /\ ng0.IAM # Nil
    /\ TogglesBefore(ng0.IAM)["EFS"] = Nil
    /\ TogglesBefore(ng0.IAM)["XRay"] = Enabled
    /\ TogglesBefore(ng0.IAM)["EBS"] = Disabled
    /\ Deref(ng.IAM).WithAddonPolicies["EFS"] = Disabled
    /\ Deref(ng.IAM).WithAddonPolicies["XRay"] = Enabled
    /\ cfg0.IAM = Nil /\ Deref(cfg.IAM).WithOIDC = Disabled

----------------------------------------------------------------------------
(* C6 *)

\* The progressive-bracket reservation for h hundredths of a GiB, in 1/10000.
BracketReservation(h) ==
    IF h <= 400 THEN 25 * h
    ELSE IF h <= 800 THEN 25 * 400 + 20 * (h - 400)
    ELSE IF h <= 1600 THEN 25 * 400 + 20 * 400 + 10 * (h - 800)
    ELSE IF h <= 12800 THEN 25 * 400 + 20 * 400 + 10 * 800 + 6 * (h - 1600)
    ELSE 25 * 400 + 20 * 400 + 10 * 800 + 6 * 11200 + 2 * (h - 12800)

Decimal4(n) ==
    LET ff == FormatFloat(n, 4)
    IN  IF n % 10000 = 0 THEN ff \o ".0" ELSE ff

MemExamples ==
    [mib \in {6144, 4096, 8192, 16384, 131072, 512} |->
        CASE mib = 6144 -> "1.4Mi"
          [] mib = 4096 -> "1.0Mi"
          [] mib = 8192 -> "1.8Mi"
          [] mib = 16384 -> "2.6Mi"
          [] mib = 131072 -> "9.32Mi"
          [] mib = 512 -> "0.125Mi"]

----------------------------------------------------------------------------
(* C7 *)

AvailableGB(info) ==
    IF info.InstanceStorageSupported THEN Deref(info.InstanceStorageInfo).TotalSizeInGB ELSE 20

\* min(15, max(1, gb / 16)) in sixteenths of a GB.
Clamped16(gb) == IF gb < 16 THEN 16 ELSE IF gb > 240 THEN 240 ELSE gb

StorageExamples ==
    [gb \in {160, 8, 400, 20} |->
        CASE gb = 160 -> "10Gi"
          [] gb = 8 -> "1Gi"
          [] gb = 400 -> "15Gi"
          [] gb = 20 -> "1.25Gi"]

\* C7: a computed ephemeral-storage reservation is min(15, max(1, available /
\* 16)) GB written with two decimals at most, where available is 20 GB for an
\* instance type without instance storage and the reported size otherwise; it
\* lies in [1, 15]; 160 GB gives "10Gi", 8 GB "1Gi", 400 GB "15Gi".
C7_StorageClamp ==
    Computed("ephemeral-storage") =>
        LET gb == AvailableGB(InfoFor("ephemeral-storage"))
            got == ReservedOf(ng.KubeletExtraConfig)["ephemeral-storage"]
        IN  /\ HasInfo("ephemeral-storage")
            /\ \E h \in 100..1500 :
                   /\ got = FormatFloat(h, 2) \o "Gi"
                   /\ 16 * h - 100 * Clamped16(gb) \in -8..8
            /\ gb \in DOMAIN StorageExamples => got = StorageExamples[gb]

C7_Witness ==
    /\ Computed("ephemeral-storage")
    /\ InfoFor("ephemeral-storage").InstanceStorageSupported
    /\ AvailableGB(InfoFor("ephemeral-storage")) = 400
    /\ ReservedOf(ng.KubeletExtraConfig)["ephemeral-storage"] = "15Gi"

----------------------------------------------------------------------------
(* C8 *)

CpuTable ==
    [c \in {1, 2, 4, 8, 16, 32, 48, 64, 96} |->
        CASE c = 1 -> "60m" [] c = 2 -> "100m" [] c = 4 -> "140m" [] c = 8 -> "180m"
          [] c = 16 -> "260m" [] c = 32 -> "420m" [] c = 48 -> "580m" [] c = 64 -> "740m"
          [] c = 96 -> "1040m"]

----------------------------------------------------------------------------
(* C9 *)

MapBefore(p) == IF p = Nil THEN EmptyMap ELSE Deref(p)

Asserted(before, after, entries) ==
    /\ DOMAIN after = (DOMAIN before) \cup DOMAIN entries
    /\ \A k \in DOMAIN entries : after[k] = entries[k]
    /\ \A k \in (DOMAIN before) \ DOMAIN entries : after[k] = before[k]

NameEntries(keyA, a, keyB, b) == [k \in {keyA, keyB} |-> IF k = keyA THEN a ELSE b]

\* C9: after resolution the labels hold the cluster name and the node-group
\* name under their fixed keys whatever was there before, and every other
\* label is as loaded; a managed group's tags likewise hold its name and
\* type "managed".
C9_LabelsAsserted ==
    /\ Done("ng") =>
           Asserted(MapBefore(ng0.Labels), Deref(ng.Labels),
                    NameEntries(ClusterNameLabel, meta.Name, NodeGroupNameLabel, ng.Name))
    /\ Done("mng") =>
           /\ Asserted(MapBefore(mng0.Labels), Deref(mng.Labels),
                       NameEntries(ClusterNameLabel, meta.Name, NodeGroupNameLabel, mng.Name))
           /\ Asserted(MapBefore(mng0.Tags), Deref(mng.Tags),
                       NameEntries(NodeGroupTypeTag, "managed", NodeGroupNameTag, mng.Name))

C9_Witness ==
    /\ Done("ng") /\ Done("mng")
    /\ ng0.Labels # Nil
    /\ DOMAIN Deref(ng0.Labels) = {ClusterNameLabel, "team"}
    /\ Deref(ng0.Labels)[ClusterNameLabel] = "old-cluster"
    /\ meta.Name = "dev" /\ ng.Name = "workers"
    /\ Deref(ng.Labels)[ClusterNameLabel] = "dev"
    /\ Deref(ng.Labels)[NodeGroupNameLabel] = "workers"
    /\ Deref(ng.Labels)["team"] = "infra"
    /\ mng0.Tags # Nil /\ DOMAIN Deref(mng0.Tags) = {NodeGroupTypeTag, "owner"}
    /\ Deref(mng0.Tags)[NodeGroupTypeTag] = "unmanaged"
    /\ Deref(mng.Tags)["owner"] = "ops"
    /\ Deref(mng.Tags)[NodeGroupTypeTag] = "managed"

----------------------------------------------------------------------------
(* C10 *)

HasLogging(c) == c.CloudWatch # Nil /\ Deref(c.CloudWatch).ClusterLogging # Nil
LogTypes(c) == Deref(Deref(c.CloudWatch).ClusterLogging).EnableTypes

\* C10: cluster defaulting replaces the enable-list by the full set of
\* supported log types exactly when it is ["all"] or ["*"]; any other list,
\* one of length 2 holding a sentinel included, is left as it is.
C10_LogTypeExpansion ==
    Done("cfg") =>
        IF HasLogging(cfg0)
        THEN /\ HasLogging(cfg)
             /\ LogTypes(cfg) =
                    IF LogTypes(cfg0) \in {<<"all">>, <<"*">>}
                    THEN <<"api", "audit", "authenticator", "controllerManager", "scheduler">>
                    ELSE LogTypes(cfg0)
        ELSE cfg.CloudWatch = cfg0.CloudWatch

C10_Witness ==
    /\ Done("cfg")
    /\ HasLogging(cfg0)
    /\ LogTypes(cfg0) = <<"*">>
    /\ Len(LogTypes(cfg)) = 5

====
